---- MODULE Spec2Model ----
(***************************************************************************)
(* tinyevents: a synchronous, type-keyed publish/subscribe Dispatcher and  *)
(* its scope-bound subscription Token (include/tinyevents/tinyevents.hpp). *)
(*                                                                         *)
(* The Dispatcher is single-threaded but re-entrant: a user callback that  *)
(* runs inside dispatch() may call any public operation.  The model keeps  *)
(* the C++ call stack explicitly (stack): a frame per active dispatch()    *)
(* loop, per running user callback and per active process() loop.  An      *)
(* operation that invokes no callback is one atomic action; dispatch() and *)
(* process() are split exactly at the points where they call out.          *)
(***************************************************************************)
EXTENDS Integers, Sequences, FiniteSets, TLC

\* ---- bounds of the exploration -----------------------------------------
Types == {"Ping", "Pong"}     \* message types T (keys of listenersByType)
Priorities == {0, 1}          \* the int priority argument of listen

\* Registry runs: the application and its callbacks subscribe and remove; the
\* application dispatches.
OrderListeners == 3           \* listen/listenOnce calls in one behaviour
OrderDepth == 2               \* frames on the call stack

\* Re-entrant runs: callbacks dispatch from inside a pass as well.
MaxListeners == 2
MaxDepth == 4

\* Deferred runs: messages are queued and process() drains them; callbacks
\* queue and call process() as well.
QueueListeners == 1
MaxQueued == 3                \* queue() calls in one behaviour
QueueDepth == 6

\* Token runs: Token objects are built on issued handles, moved, released and
\* destroyed by the application and by callbacks.
TokenListeners == 1
TokenDepth == 4
MaxTokens == 2                \* Token objects alive at one time

\* Removal runs: remove() is called over and over, on handles never issued
\* too, by the application and by callbacks, with messages in the queue.
RemoveListeners == 2
RemoveQueued == 1
RemoveDepth == 4

\* Move runs: the application subscribes, removes, and builds Token objects,
\* moves them into new and into existing objects, releases and destroys them.
MoveListeners == 2
MoveTokens == 2

\* Endless runs: callbacks may queue for ever; the bounds are on what exists
\* at one time.  One message type is enough for a listener to feed the queue
\* that invokes it.
LiveTypes == {"Ping"}
LiveListeners == 1
LivePending == 2              \* closures the drain has yet to finish
LiveDepth == 4

VARIABLES
    listenersByType,               \* std::map<type_index, vector<ListenerEntry>>
    queuedDispatches,              \* std::list<function<void(Dispatcher&)>>
    listenersScheduledForRemoval,  \* std::set<uint64_t>
    nextListenerId,                \* std::uint64_t, starts at 0
    stack,                         \* call stack, innermost frame last
    crashed,                       \* the process has faulted (undefined behaviour)
    \* ---- history (observations about the run; the code does not read them)
    queueCount,                    \* number of queue() calls so far
    onceCalls,                     \* handle -> invocations of a listenOnce user callback
    removeCalled,                  \* issued handles on which remove() has returned
    fresh,                         \* <<handle, type>> registered inside a pass of that type, no later pass yet
    lastInvoked,                   \* queue ticket of the latest invocation made by process()
    dispatched,                    \* queue ticket -> times process() ran its closure
    reentered,                     \* process() has been called while process() was running
    returned,                      \* the handles listen and listenOnce have returned, in order
    noopRemoves,                   \* kinds of remove() calls made on a handle already removed or never issued
    tokenDestroyed,                \* handles whose owning Token has been destroyed
    \* ---- the Token objects of the application
    tokens                         \* slot -> Token {_handle, holdsResource}, or no object

vars == <<listenersByType, queuedDispatches, listenersScheduledForRemoval,
          nextListenerId, stack, crashed, queueCount, onceCalls, removeCalled,
          fresh, lastInvoked, dispatched, reentered, noopRemoves, returned,
          tokenDestroyed, tokens>>

\* Every handle and every queue ticket a behaviour can issue.
Handles == 0 .. (OrderListeners + MaxListeners + QueueListeners
                    + TokenListeners + RemoveListeners + MoveListeners
                    + LiveListeners)
Slots == 1 .. (MaxTokens + MoveTokens)
Tickets == 1 .. (MaxQueued + RemoveQueued + LivePending)

\* ---- sequences ----------------------------------------------------------
Range(s) == {s[i] : i \in 1 .. Len(s)}

HandlesOf(vec) == {vec[i].handle : i \in 1 .. Len(vec)}

InsertAt(vec, pos, entry) ==
    SubSeq(vec, 1, pos - 1) \o <<entry>> \o SubSeq(vec, pos, Len(vec))

\* ---- Dispatcher::addListener -------------------------------------------
\* std::find_if(listeners.begin(), listeners.end(), e.priority < priority):
\* the position of the first entry of strictly lower priority, or end().
FindInsertPosStableBroken(listeners, priority) ==
    LET lower == {i \in 1 .. Len(listeners) : listeners[i].priority <= priority}
    IN  IF lower = {} THEN Len(listeners) + 1
        ELSE CHOOSE i \in lower : \A j \in lower : i <= j

FindInsertPosAtEnd(listeners, priority) == Len(listeners) + 1

FindInsertPosAtFront(listeners, priority) == 1

FindInsertPos(listeners, priority) ==
    LET lower == {i \in 1 .. Len(listeners) : listeners[i].priority < priority}
    IN  IF lower = {} THEN Len(listeners) + 1
        ELSE CHOOSE i \in lower : \A j \in lower : i <= j

\* The bucket after addListener: entry {handle, priority, callback}; the
\* callback is either the plain user callback or the listenOnce wrapper.
addListener(listeners, handle, priority, callback) ==
    InsertAt(listeners, FindInsertPos(listeners, priority),
             [handle |-> handle, priority |-> priority, callback |-> callback])

\* The callback stored by listen: the user's listener itself.
PlainCallback == [once |-> FALSE]

\* The callback stored by listenOnce: the wrapper lambda, which captured
\* listenerId (the value of nextListenerId read before listen was called).
OnceCallbackAfterListen(listenerId) == [once |-> TRUE, listenerId |-> listenerId + 1]

OnceCallback(listenerId) == [once |-> TRUE, listenerId |-> listenerId]

\* ---- Dispatcher::remove -------------------------------------------------
\* vec.erase(std::remove_if(..., entry.handle == handle), vec.end())
EraseHandleInverted(vec, handle) == SelectSeq(vec, LAMBDA e : e.handle = handle)

\* (vec.erase(first match, vec.end()) without the remove_if compaction)
EraseFromHandle(vec, handle) ==
    LET hit == {i \in 1 .. Len(vec) : vec[i].handle = handle}
    IN  IF hit = {} THEN vec
        ELSE SubSeq(vec, 1, (CHOOSE i \in hit : \A j \in hit : i <= j) - 1)

EraseHandle(vec, handle) == SelectSeq(vec, LAMBDA e : e.handle # handle)

removeForgotten(registry, scheduled, handle) == registry

\* The registry after remove(handle): untouched when the handle is scheduled
\* for removal, else the entry is erased from every bucket.
remove(registry, scheduled, handle) ==
    IF handle \in scheduled THEN registry
    ELSE [t \in Types |-> EraseHandle(registry[t], handle)]

\* ---- Dispatcher::hasListener -------------------------------------------
hasListenerAnyOf(handle) ==
    \E t \in Types : handle \in HandlesOf(listenersByType[t])

hasListener(handle) ==
    IF handle \in listenersScheduledForRemoval THEN FALSE
    ELSE \E t \in Types : handle \in HandlesOf(listenersByType[t])

\* ---- Token --------------------------------------------------------------
\* A slot that holds no Token object.
NoToken == [alive |-> FALSE, handle |-> 0, holdsResource |-> FALSE, family |-> 0]

\* Token(dispatcher, handle): _handle(handle), holdsResource(true).  The
\* family field is not in the code: it tells which Token objects are related
\* by moves (a Token built by this constructor starts a family).
Token(handle) ==
    [alive |-> TRUE, handle |-> handle, holdsResource |-> TRUE, family |-> 0]

\* A family number that no Token object carries.
NewFamily ==
    CHOOSE n \in Slots :
        /\ \A k \in Slots : tokens[k].family # n
        /\ \A m \in 1 .. (n - 1) : \E k \in Slots : tokens[k].family = m

\* What a move leaves in the object moved from: other.holdsResource = false.
MovedFromStillHolds(tok) == tok

MovedFrom(tok) == [tok EXCEPT !.holdsResource = FALSE]

\* What a move puts in the object moved to: other's _handle and holdsResource.
MovedTo(tok) ==
    [alive |-> TRUE, handle |-> tok.handle, holdsResource |-> tok.holdsResource,
     family |-> tok.family]

\* The registry after ~Token(): if (holdsResource) dispatcher.remove(_handle).
LeakOnDestruction(registry, scheduled, tok) == registry

ReleaseOnDestruction(registry, scheduled, tok) ==
    IF tok.holdsResource THEN remove(registry, scheduled, tok.handle)
    ELSE registry

\* ---- call stack ---------------------------------------------------------
Depth == Len(stack)
Top == stack[Depth]
Pop(s) == SubSeq(s, 1, Len(s) - 1)
ReplaceTop(s, f) == [s EXCEPT ![Len(s)] = f]

\* Public operations are called by the application (empty stack) or by a
\* running user callback (innermost frame is a callback).
CanCall == /\ ~crashed
           /\ IF Depth = 0 THEN TRUE ELSE Top.kind = "callback"

InDispatch == ~crashed /\ Depth > 0 /\ Top.kind = "dispatch"
InCallback == ~crashed /\ Depth > 0 /\ Top.kind = "callback"
InProcess == ~crashed /\ Depth > 0 /\ Top.kind = "process"

\* Handles of the listenOnce wrappers whose user callback is running in a
\* frame below position k of the stack.
RunningOnce(k) ==
    {stack[i].handle : i \in {j \in 1 .. (k - 1) :
                         stack[j].kind = "callback" /\ stack[j].callback.once}}

Init ==
    /\ listenersByType = [t \in Types |-> <<>>]
    /\ queuedDispatches = <<>>
    /\ listenersScheduledForRemoval = {}
    /\ nextListenerId = 0
    /\ stack = <<>>
    /\ crashed = FALSE
    /\ queueCount = 0
    /\ onceCalls = [h \in Handles |-> 0]
    /\ removeCalled = {}
    /\ fresh = {}
    /\ lastInvoked = 0
    /\ dispatched = [k \in Tickets |-> 0]
    /\ reentered = FALSE
    /\ noopRemoves = {}
    /\ returned = <<>>
    /\ tokenDestroyed = {}
    /\ tokens = [k \in Slots |-> NoToken]

\* ---- frames -------------------------------------------------------------
\* One dispatch<T>(msg) call.  listenersCopy and idx are the locals of the
\* loop; ticket names the queued message when process() made the call (0 for
\* a direct call).  The other fields observe the pass: the handles it
\* invoked (fired), the not-yet-visited snapshot handles on which a callback
\* called remove() (rmCalled), the handles that removed themselves in their
\* own callback (selfRemoved), the listeners of T registered while it ran
\* (added), the listeners for which it is the first pass after their
\* registration (mustFire), the snapshot handles on which remove() had
\* already returned when it started (doomed), and those whose owning Token
\* had already been destroyed (released).
DispatchFrame(t, ticket) ==
    [kind |-> "dispatch", type |-> t, listenersCopy |-> listenersByType[t],
     idx |-> 1, ticket |-> ticket, fired |-> <<>>, rmCalled |-> {},
     selfRemoved |-> {}, added |-> {},
     mustFire |-> {h \in Handles : <<h, t>> \in fresh},
     doomed |-> removeCalled \cap HandlesOf(listenersByType[t]),
     released |-> tokenDestroyed \cap HandlesOf(listenersByType[t])]

CallbackFrame(entry) ==
    [kind |-> "callback", handle |-> entry.handle, callback |-> entry.callback]

\* One process() call: it is the loop iterator, identified by the ticket of
\* the list node it points at.
ProcessFrame(ticket) ==
    [kind |-> "process", it |-> ticket, queuedDuring |-> {}]

\* The entries a dispatch loop iterates over: its own copy of the bucket.
EntriesLive(f) == listenersByType[f.type]

Entries(f) == f.listenersCopy

\* The test of the dispatch loop: an entry whose handle is scheduled for
\* removal is skipped.
IsScheduledOrRemoved(handle) ==
    \/ handle \in listenersScheduledForRemoval
    \/ \A t \in Types : handle \notin HandlesOf(listenersByType[t])

\* (a loop without the test of line 70)
IsScheduledNever(handle) == FALSE

IsScheduled(handle) == handle \in listenersScheduledForRemoval

DispatchOnStack(t) ==
    \E i \in 1 .. Depth : stack[i].kind = "dispatch" /\ stack[i].type = t

ProcessOnStack == \E i \in 1 .. Depth : stack[i].kind = "process"

\* ---- listen / listenOnce ------------------------------------------------
NoteAdded(s, t, h) ==
    [i \in 1 .. Len(s) |->
        IF s[i].kind = "dispatch" /\ s[i].type = t
        THEN [s[i] EXCEPT !.added = @ \cup {h}] ELSE s[i]]

\* observed: whether the run records the pass observations added, fresh,
\* rmCalled and selfRemoved (the runs that dispatch from callbacks do).
Register(t, priority, callback, maxListeners, observed) ==
    /\ CanCall
    /\ nextListenerId < maxListeners
    /\ listenersByType' = [listenersByType EXCEPT
            ![t] = addListener(@, nextListenerId, priority, callback)]
    /\ nextListenerId' = nextListenerId + 1
    /\ stack' = IF observed THEN NoteAdded(stack, t, nextListenerId) ELSE stack
    /\ fresh' = IF observed /\ DispatchOnStack(t)
                THEN fresh \cup {<<nextListenerId, t>>} ELSE fresh
    /\ returned' = Append(returned, nextListenerId)
    /\ UNCHANGED <<tokens, tokenDestroyed, noopRemoves>>
    /\ UNCHANGED <<queuedDispatches, listenersScheduledForRemoval, crashed,
                   queueCount, onceCalls, removeCalled, lastInvoked,
                   dispatched, reentered>>

Listen(t, priority, maxListeners, observed) ==
    Register(t, priority, PlainCallback, maxListeners, observed)

ListenOnce(t, priority, maxListeners, observed) ==
    Register(t, priority, OnceCallback(nextListenerId), maxListeners, observed)

\* ---- remove -------------------------------------------------------------
\* What a remove(h) call made by user code leaves in the observation fields
\* of the passes in progress.
NoteRemove(s, h) ==
    [i \in 1 .. Len(s) |->
        IF s[i].kind # "dispatch" THEN s[i]
        ELSE [s[i] EXCEPT
                !.rmCalled =
                    IF \E j \in s[i].idx .. Len(s[i].listenersCopy) :
                           s[i].listenersCopy[j].handle = h
                    THEN @ \cup {h} ELSE @,
                !.selfRemoved =
                    IF i + 1 <= Len(s) /\ s[i + 1].kind = "callback"
                       /\ s[i + 1].handle = h /\ i + 1 = Len(s)
                    THEN @ \cup {h} ELSE @]]

Issued(h) == h < nextListenerId

\* counted: whether the run records the remove() calls made on a handle that
\* was removed before or was never issued.
NoteNoop(h) ==
    IF ~Issued(h) THEN {"unissued"}
    ELSE IF h \in removeCalled THEN {"again"} ELSE {}

Remove(h, observed, counted) ==
    /\ CanCall
    /\ listenersByType' = remove(listenersByType, listenersScheduledForRemoval, h)
    /\ removeCalled' = IF Issued(h) THEN removeCalled \cup {h} ELSE removeCalled
    /\ stack' = IF observed THEN NoteRemove(stack, h) ELSE stack
    /\ noopRemoves' = IF counted THEN noopRemoves \cup NoteNoop(h) ELSE noopRemoves
    /\ UNCHANGED <<tokens, tokenDestroyed, returned>>
    /\ UNCHANGED <<queuedDispatches, listenersScheduledForRemoval,
                   nextListenerId, crashed, queueCount, onceCalls, fresh,
                   lastInvoked, dispatched, reentered>>

\* ---- Token operations ---------------------------------------------------
\* A Token is built on a handle that listen or listenOnce returned.
\* tracked: whether the run records the families of Token objects.
TokenConstruct(k, h, tracked) ==
    /\ CanCall
    /\ ~tokens[k].alive
    /\ Issued(h)
    /\ tokens' = [tokens EXCEPT
            ![k] = IF tracked THEN [Token(h) EXCEPT !.family = NewFamily]
                   ELSE Token(h)]
    /\ UNCHANGED <<listenersByType, queuedDispatches,
                   listenersScheduledForRemoval, nextListenerId, stack,
                   crashed, queueCount, onceCalls, removeCalled, fresh,
                   lastInvoked, dispatched, reentered, noopRemoves, returned,
                   tokenDestroyed>>

\* ~Token()
TokenDestruct(k) ==
    /\ CanCall
    /\ tokens[k].alive
    /\ listenersByType' =
           ReleaseOnDestruction(listenersByType, listenersScheduledForRemoval,
                                tokens[k])
    /\ removeCalled' = IF tokens[k].holdsResource
                       THEN removeCalled \cup {tokens[k].handle}
                       ELSE removeCalled
    /\ tokenDestroyed' = IF tokens[k].holdsResource
                         THEN tokenDestroyed \cup {tokens[k].handle}
                         ELSE tokenDestroyed
    /\ tokens' = [tokens EXCEPT ![k] = NoToken]
    /\ UNCHANGED <<queuedDispatches, listenersScheduledForRemoval,
                   nextListenerId, stack, crashed, queueCount, onceCalls,
                   fresh, lastInvoked, dispatched, reentered, noopRemoves, returned>>

\* Token(Token &&other): the new object takes other's fields and other stops
\* holding the resource.
TokenMoveConstruct(k, other) ==
    /\ CanCall
    /\ ~tokens[k].alive
    /\ tokens[other].alive
    /\ tokens' = [tokens EXCEPT
            ![k] = MovedTo(tokens[other]),
            ![other] = MovedFrom(@)]
    /\ UNCHANGED <<listenersByType, queuedDispatches,
                   listenersScheduledForRemoval, nextListenerId, stack,
                   crashed, queueCount, onceCalls, removeCalled, fresh,
                   lastInvoked, dispatched, reentered, noopRemoves, returned,
                   tokenDestroyed>>

\* operator=(Token &&other): nothing on self-assignment; else the handle held
\* so far is removed and other's fields are taken.
TokenMoveAssign(k, other) ==
    /\ CanCall
    /\ tokens[k].alive
    /\ tokens[other].alive
    /\ IF k = other
       THEN UNCHANGED <<listenersByType, removeCalled, tokens>>
       ELSE /\ listenersByType' =
                   IF tokens[k].holdsResource
                   THEN remove(listenersByType, listenersScheduledForRemoval,
                               tokens[k].handle)
                   ELSE listenersByType
            /\ removeCalled' = IF tokens[k].holdsResource
                               THEN removeCalled \cup {tokens[k].handle}
                               ELSE removeCalled
            /\ tokens' = [tokens EXCEPT
                    ![k] = MovedTo(tokens[other]),
                    ![other] = MovedFrom(@)]
    /\ UNCHANGED <<queuedDispatches, listenersScheduledForRemoval,
                   nextListenerId, stack, crashed, queueCount, onceCalls,
                   fresh, lastInvoked, dispatched, reentered, noopRemoves, returned,
                   tokenDestroyed>>

\* Token::remove(): dispatcher.remove(_handle); holdsResource = false.
TokenRemove(k) ==
    /\ CanCall
    /\ tokens[k].alive
    /\ listenersByType' =
           remove(listenersByType, listenersScheduledForRemoval, tokens[k].handle)
    /\ removeCalled' = removeCalled \cup {tokens[k].handle}
    /\ tokens' = [tokens EXCEPT ![k] = [@ EXCEPT !.holdsResource = FALSE]]
    /\ UNCHANGED <<queuedDispatches, listenersScheduledForRemoval,
                   nextListenerId, stack, crashed, queueCount, onceCalls,
                   fresh, lastInvoked, dispatched, reentered, noopRemoves, returned,
                   tokenDestroyed>>

\* ---- dispatch -----------------------------------------------------------
FreshAfterPass(t) == {p \in fresh : p[2] # t}

DispatchBegin(t, maxDepth) ==
    /\ CanCall
    /\ Depth + 2 <= maxDepth
    /\ stack' = Append(stack, DispatchFrame(t, 0))
    /\ fresh' = FreshAfterPass(t)
    /\ UNCHANGED <<tokens, tokenDestroyed, noopRemoves, returned>>
    /\ UNCHANGED <<listenersByType, queuedDispatches,
                   listenersScheduledForRemoval, nextListenerId, crashed,
                   queueCount, onceCalls, removeCalled, lastInvoked,
                   dispatched, reentered>>

\* entry.callback(&msg) for an entry that is not scheduled for removal.  For
\* a listenOnce entry the step runs the wrapper up to its call of the user
\* callback: listenersScheduledForRemoval.insert(listenerId); listener(msg).
DispatchInvoke ==
    /\ InDispatch
    /\ Top.idx <= Len(Entries(Top))
    /\ LET f == Top
           entry == Entries(f)[f.idx]
       IN  /\ ~IsScheduled(entry.handle)
           /\ stack' = Append(
                 ReplaceTop(stack, [f EXCEPT !.idx = @ + 1,
                                             !.fired = Append(@, entry.handle)]),
                 CallbackFrame(entry))
           /\ listenersScheduledForRemoval' =
                 IF entry.callback.once
                 THEN listenersScheduledForRemoval \cup {entry.callback.listenerId}
                 ELSE listenersScheduledForRemoval
           /\ onceCalls' = IF entry.callback.once
                           THEN [onceCalls EXCEPT ![entry.handle] = @ + 1]
                           ELSE onceCalls
           /\ lastInvoked' = IF f.ticket # 0 THEN f.ticket ELSE lastInvoked
    /\ UNCHANGED <<tokens, tokenDestroyed, noopRemoves, returned>>
    /\ UNCHANGED <<listenersByType, queuedDispatches, nextListenerId, crashed,
                   queueCount, removeCalled, fresh, dispatched, reentered>>

DispatchSkip ==
    /\ InDispatch
    /\ Top.idx <= Len(Entries(Top))
    /\ IsScheduled(Entries(Top)[Top.idx].handle)
    /\ stack' = ReplaceTop(stack, [Top EXCEPT !.idx = @ + 1])
    /\ UNCHANGED <<tokens, tokenDestroyed, noopRemoves, returned>>
    /\ UNCHANGED <<listenersByType, queuedDispatches,
                   listenersScheduledForRemoval, nextListenerId, crashed,
                   queueCount, onceCalls, removeCalled, fresh, lastInvoked,
                   dispatched, reentered>>

DispatchEnd ==
    /\ InDispatch
    /\ Top.idx > Len(Entries(Top))
    /\ stack' = Pop(stack)
    /\ UNCHANGED <<tokens, tokenDestroyed, noopRemoves, returned>>
    /\ UNCHANGED <<listenersByType, queuedDispatches,
                   listenersScheduledForRemoval, nextListenerId, crashed,
                   queueCount, onceCalls, removeCalled, fresh, lastInvoked,
                   dispatched, reentered>>

\* The user callback returns.  A listenOnce wrapper then finishes:
\* listenersScheduledForRemoval.erase(listenerId); this->remove(listenerId).
CallbackReturn ==
    /\ InCallback
    /\ LET cb == Top.callback
       IN  IF cb.once
           THEN /\ listenersScheduledForRemoval' =
                       listenersScheduledForRemoval \ {cb.listenerId}
                /\ listenersByType' =
                       remove(listenersByType,
                              listenersScheduledForRemoval \ {cb.listenerId},
                              cb.listenerId)
                /\ removeCalled' = removeCalled \cup {cb.listenerId}
           ELSE UNCHANGED <<listenersScheduledForRemoval, listenersByType,
                            removeCalled>>
    /\ stack' = Pop(stack)
    /\ UNCHANGED <<tokens, tokenDestroyed, noopRemoves, returned>>
    /\ UNCHANGED <<queuedDispatches, nextListenerId, crashed, queueCount,
                   onceCalls, fresh, lastInvoked, dispatched, reentered>>

\* ---- queue / process ----------------------------------------------------
\* queuedDispatches.push_back(closure): the closure captured msg; the model
\* keeps its type and the ticket that identifies the list node.
push_front(q, closure) == <<closure>> \o q

push_back(q, closure) == Append(q, closure)

NoteQueued(s, k) ==
    [i \in 1 .. Len(s) |->
        IF s[i].kind = "process"
        THEN [s[i] EXCEPT !.queuedDuring = @ \cup {k}] ELSE s[i]]

Queue(t, maxQueued) ==
    /\ CanCall
    /\ queueCount < maxQueued
    /\ queueCount' = queueCount + 1
    /\ queuedDispatches' =
           push_back(queuedDispatches, [type |-> t, ticket |-> queueCount + 1])
    /\ stack' = NoteQueued(stack, queueCount + 1)
    /\ UNCHANGED <<tokens, tokenDestroyed, noopRemoves, returned>>
    /\ UNCHANGED <<listenersByType, listenersScheduledForRemoval,
                   nextListenerId, crashed, onceCalls, removeCalled, fresh,
                   lastInvoked, dispatched, reentered>>

NodePos(ticket) ==
    IF \E i \in 1 .. Len(queuedDispatches) : queuedDispatches[i].ticket = ticket
    THEN CHOOSE i \in 1 .. Len(queuedDispatches) :
             queuedDispatches[i].ticket = ticket
    ELSE 0

\* queuedDispatch(*this): the closure calls dispatcher.dispatch(msg).
RunClosure(s, closure) ==
    /\ stack' = Append(s, DispatchFrame(closure.type, closure.ticket))
    /\ fresh' = FreshAfterPass(closure.type)
    /\ dispatched' = [dispatched EXCEPT ![closure.ticket] = @ + 1]

\* process() is entered: an empty list is cleared at once, otherwise the
\* loop starts at begin() and runs the first closure.
ProcessBegin(maxDepth) ==
    /\ CanCall
    /\ reentered' = (reentered \/ ProcessOnStack)
    /\ IF queuedDispatches = <<>>
       THEN UNCHANGED <<stack, fresh, dispatched>>
       ELSE /\ Depth + 3 <= maxDepth
            /\ RunClosure(Append(stack, ProcessFrame(queuedDispatches[1].ticket)),
                          queuedDispatches[1])
    /\ UNCHANGED <<tokens, tokenDestroyed, noopRemoves, returned>>
    /\ UNCHANGED <<listenersByType, queuedDispatches,
                   listenersScheduledForRemoval, nextListenerId, crashed,
                   queueCount, onceCalls, removeCalled, lastInvoked>>

\* (a loop that returns without queuedDispatches.clear())
ProcessNextNoClear ==
    /\ InProcess
    /\ NodePos(Top.it) # 0
    /\ LET pos == NodePos(Top.it)
       IN  IF pos < Len(queuedDispatches)
           THEN RunClosure(
                    ReplaceTop(stack,
                        [Top EXCEPT !.it = queuedDispatches[pos + 1].ticket]),
                    queuedDispatches[pos + 1])
           ELSE /\ stack' = Pop(stack)
                /\ UNCHANGED <<fresh, dispatched>>
    /\ UNCHANGED <<tokens, tokenDestroyed, noopRemoves, returned>>
    /\ UNCHANGED <<listenersByType, queuedDispatches,
                   listenersScheduledForRemoval, nextListenerId, crashed,
                   queueCount, onceCalls, removeCalled, lastInvoked, reentered>>

\* A closure returned and the node the iterator points at is still in the
\* list: ++it, then either the next closure runs or the loop is over and
\* queuedDispatches.clear() runs.
ProcessNext ==
    /\ InProcess
    /\ NodePos(Top.it) # 0
    /\ LET pos == NodePos(Top.it)
       IN  IF pos < Len(queuedDispatches)
           THEN /\ RunClosure(
                     ReplaceTop(stack,
                         [Top EXCEPT !.it = queuedDispatches[pos + 1].ticket]),
                     queuedDispatches[pos + 1])
                /\ UNCHANGED queuedDispatches
           ELSE /\ queuedDispatches' = <<>>
                /\ stack' = Pop(stack)
                /\ UNCHANGED <<fresh, dispatched>>
    /\ UNCHANGED <<tokens, tokenDestroyed, noopRemoves, returned>>
    /\ UNCHANGED <<listenersByType, listenersScheduledForRemoval,
                   nextListenerId, crashed, queueCount, onceCalls,
                   removeCalled, lastInvoked, reentered>>

\* A closure returned but a process() call made from a callback has cleared
\* the list meanwhile: the iterator points at a destroyed node and ++it is
\* undefined behaviour.  The outcomes a build can show: the program faults;
\* the stale link reads as end(), so the loop ends; the freed node's storage
\* is in use again and the iterator lands on a node of the current list.
ProcessDanglingFault ==
    /\ InProcess
    /\ NodePos(Top.it) = 0
    /\ crashed' = TRUE
    /\ UNCHANGED <<tokens, tokenDestroyed, noopRemoves, returned>>
    /\ UNCHANGED <<listenersByType, queuedDispatches,
                   listenersScheduledForRemoval, nextListenerId, stack,
                   queueCount, onceCalls, removeCalled, fresh, lastInvoked,
                   dispatched, reentered>>

ProcessDanglingEnd ==
    /\ InProcess
    /\ NodePos(Top.it) = 0
    /\ queuedDispatches' = <<>>
    /\ stack' = Pop(stack)
    /\ UNCHANGED <<tokens, tokenDestroyed, noopRemoves, returned>>
    /\ UNCHANGED <<listenersByType, listenersScheduledForRemoval,
                   nextListenerId, crashed, queueCount, onceCalls,
                   removeCalled, fresh, lastInvoked, dispatched, reentered>>

ProcessDanglingVisit ==
    /\ InProcess
    /\ NodePos(Top.it) = 0
    /\ \E i \in 1 .. Len(queuedDispatches) :
          RunClosure(ReplaceTop(stack,
                         [Top EXCEPT !.it = queuedDispatches[i].ticket]),
                     queuedDispatches[i])
    /\ UNCHANGED <<tokens, tokenDestroyed, noopRemoves, returned>>
    /\ UNCHANGED <<listenersByType, queuedDispatches,
                   listenersScheduledForRemoval, nextListenerId, crashed,
                   queueCount, onceCalls, removeCalled, lastInvoked, reentered>>

\* ---- queue / process in runs without end -------------------------------
\* A callback that queues a message whenever it is invoked makes the list
\* grow for ever.  These runs call process() from the application only, so
\* the nodes behind the loop iterator are never read again; the run forgets
\* them as the iterator moves on and names a new node by a ticket that no
\* node of the list carries.  The observations that count calls are off.
FreeTicket ==
    CHOOSE k \in Tickets :
        /\ \A i \in 1 .. Len(queuedDispatches) : queuedDispatches[i].ticket # k
        /\ \A m \in 1 .. (k - 1) :
               \E i \in 1 .. Len(queuedDispatches) : queuedDispatches[i].ticket = m

QueueDraining(t, maxPending) ==
    /\ CanCall
    /\ Len(queuedDispatches) < maxPending
    /\ queuedDispatches' =
           push_back(queuedDispatches, [type |-> t, ticket |-> FreeTicket])
    /\ UNCHANGED <<listenersByType, listenersScheduledForRemoval,
                   nextListenerId, stack, crashed, queueCount, onceCalls,
                   removeCalled, fresh, lastInvoked, dispatched, reentered,
                   noopRemoves, returned, tokenDestroyed, tokens>>

\* ++it: the list from the node the iterator moves to.
AdvanceStuck(q) == q

Advance(q) == Tail(q)

\* process() called by the application.
ProcessBeginDraining(maxDepth) ==
    /\ ~crashed
    /\ Depth = 0
    /\ IF queuedDispatches = <<>>
       THEN UNCHANGED <<stack, fresh>>
       ELSE /\ Depth + 3 <= maxDepth
            /\ stack' = <<ProcessFrame(queuedDispatches[1].ticket),
                          DispatchFrame(queuedDispatches[1].type,
                                        queuedDispatches[1].ticket)>>
            /\ fresh' = FreshAfterPass(queuedDispatches[1].type)
    /\ UNCHANGED <<listenersByType, queuedDispatches,
                   listenersScheduledForRemoval, nextListenerId, crashed,
                   queueCount, onceCalls, removeCalled, lastInvoked,
                   dispatched, reentered, noopRemoves, returned,
                   tokenDestroyed, tokens>>

\* A closure returned: ++it, then the next closure runs, or the loop is over
\* and queuedDispatches.clear() runs.
ProcessNextDraining ==
    /\ InProcess
    /\ IF Len(queuedDispatches) > 1
       THEN /\ queuedDispatches' = Advance(queuedDispatches)
            /\ stack' = Append(
                   ReplaceTop(stack, [Top EXCEPT !.it = queuedDispatches'[1].ticket]),
                   DispatchFrame(queuedDispatches'[1].type,
                                 queuedDispatches'[1].ticket))
            /\ fresh' = FreshAfterPass(queuedDispatches'[1].type)
       ELSE /\ queuedDispatches' = <<>>
            /\ stack' = Pop(stack)
            /\ UNCHANGED fresh
    /\ UNCHANGED <<listenersByType, listenersScheduledForRemoval,
                   nextListenerId, crashed, queueCount, onceCalls,
                   removeCalled, lastInvoked, dispatched, reentered,
                   noopRemoves, returned, tokenDestroyed, tokens>>

\* ---- specifications -----------------------------------------------------
\* The application subscribes, removes and dispatches; callbacks subscribe
\* and remove.
NextOrder ==
    \/ \E t \in Types, p \in Priorities : Listen(t, p, OrderListeners, FALSE)
    \/ \E t \in Types, p \in Priorities : ListenOnce(t, p, OrderListeners, FALSE)
    \/ \E h \in 0 .. OrderListeners : Remove(h, FALSE, FALSE)
    \/ \E t \in Types : DispatchBegin(t, OrderDepth)
    \/ DispatchInvoke
    \/ DispatchEnd
    \/ CallbackReturn

SpecOrder == Init /\ [][NextOrder]_vars

\* As above, and callbacks dispatch too (re-entrant passes).
Next ==
    \/ \E t \in Types, p \in Priorities : Listen(t, p, MaxListeners, TRUE)
    \/ \E t \in Types, p \in Priorities : ListenOnce(t, p, MaxListeners, TRUE)
    \/ \E h \in 0 .. MaxListeners : Remove(h, TRUE, FALSE)
    \/ \E t \in Types : DispatchBegin(t, MaxDepth)
    \/ DispatchInvoke
    \/ DispatchSkip
    \/ DispatchEnd
    \/ CallbackReturn

Spec == Init /\ [][Next]_vars

\* Deferred dispatch: the application and the callbacks subscribe, remove,
\* queue and call process().  The listeners are of one priority: the order
\* inside one pass is the subject of the runs above.
NextQueue ==
    \/ \E t \in Types : Listen(t, 0, QueueListeners, FALSE)
    \/ \E t \in Types : ListenOnce(t, 0, QueueListeners, FALSE)
    \/ \E h \in 0 .. QueueListeners : Remove(h, FALSE, FALSE)
    \/ \E t \in Types : Queue(t, MaxQueued)
    \/ ProcessBegin(QueueDepth)
    \/ ProcessNext
    \/ ProcessDanglingFault
    \/ ProcessDanglingEnd
    \/ ProcessDanglingVisit
    \/ DispatchInvoke
    \/ DispatchSkip
    \/ DispatchEnd
    \/ CallbackReturn

SpecQueue == Init /\ [][NextQueue]_vars

\* Tokens: the application and the callbacks subscribe, dispatch, remove and
\* build, move, release and destroy Token objects.
NextToken ==
    \/ \E t \in Types : Listen(t, 0, TokenListeners, FALSE)
    \/ \E t \in Types : ListenOnce(t, 0, TokenListeners, FALSE)
    \/ \E h \in 0 .. TokenListeners : Remove(h, FALSE, FALSE)
    \/ \E t \in Types : DispatchBegin(t, TokenDepth)
    \/ DispatchInvoke
    \/ DispatchSkip
    \/ DispatchEnd
    \/ CallbackReturn
    \/ \E k \in 1 .. MaxTokens, h \in Handles : TokenConstruct(k, h, FALSE)
    \/ \E k \in 1 .. MaxTokens : TokenDestruct(k)
    \/ \E k, other \in 1 .. MaxTokens : TokenMoveConstruct(k, other)
    \/ \E k, other \in 1 .. MaxTokens : TokenMoveAssign(k, other)
    \/ \E k \in 1 .. MaxTokens : TokenRemove(k)

SpecToken == Init /\ [][NextToken]_vars

\* Removal: the application and the callbacks subscribe, queue, dispatch and
\* call remove() on every handle, issued or not, any number of times.
NextRemove ==
    \/ \E t \in Types : Listen(t, 0, RemoveListeners, FALSE)
    \/ \E t \in Types : ListenOnce(t, 0, RemoveListeners, FALSE)
    \/ \E h \in 0 .. RemoveListeners : Remove(h, FALSE, TRUE)
    \/ \E t \in Types : Queue(t, RemoveQueued)
    \/ \E t \in Types : DispatchBegin(t, RemoveDepth)
    \/ DispatchInvoke
    \/ DispatchSkip
    \/ DispatchEnd
    \/ CallbackReturn

SpecRemove == Init /\ [][NextRemove]_vars

\* Moves: the application subscribes, removes and handles Token objects, and
\* the run records which Token objects are related by moves.
NextMove ==
    \/ \E t \in Types : Listen(t, 0, MoveListeners, FALSE)
    \/ \E h \in 0 .. MoveListeners : Remove(h, FALSE, FALSE)
    \/ \E k \in 1 .. MoveTokens, h \in Handles : TokenConstruct(k, h, TRUE)
    \/ \E k \in 1 .. MoveTokens : TokenDestruct(k)
    \/ \E k, other \in 1 .. MoveTokens : TokenMoveConstruct(k, other)
    \/ \E k, other \in 1 .. MoveTokens : TokenMoveAssign(k, other)
    \/ \E k \in 1 .. MoveTokens : TokenRemove(k)

SpecMove == Init /\ [][NextMove]_vars

\* Runs without end: the application and the callbacks subscribe, remove,
\* dispatch and queue; the application calls process().  A loop that can
\* take its next step takes it, and every callback returns, whatever it has
\* called.
CallbackReturnAt(k) == Depth = k /\ CallbackReturn

NextLive ==
    \/ \E t \in LiveTypes : Listen(t, 0, LiveListeners, FALSE)
    \/ \E t \in LiveTypes : ListenOnce(t, 0, LiveListeners, FALSE)
    \/ \E h \in 0 .. LiveListeners : Remove(h, FALSE, FALSE)
    \/ \E t \in LiveTypes : QueueDraining(t, LivePending)
    \/ \E t \in LiveTypes : DispatchBegin(t, LiveDepth)
    \/ ProcessBeginDraining(LiveDepth)
    \/ ProcessNextDraining
    \/ DispatchInvoke
    \/ DispatchSkip
    \/ DispatchEnd
    \/ CallbackReturn

SpecLive ==
    /\ Init
    /\ [][NextLive]_vars
    /\ WF_vars(DispatchInvoke)
    /\ WF_vars(DispatchSkip)
    /\ WF_vars(DispatchEnd)
    /\ WF_vars(ProcessNextDraining)
    /\ \A k \in 1 .. (LiveDepth + 1) : SF_vars(CallbackReturnAt(k))

\* ---- properties ---------------------------------------------------------
DispatchFrames == {k \in 1 .. Depth : stack[k].kind = "dispatch"}

\* The position of handle h in the sequence of handles s (0: not in it).
PosIn(s, h) ==
    IF \E i \in 1 .. Len(s) : s[i] = h
    THEN CHOOSE i \in 1 .. Len(s) : s[i] = h
    ELSE 0

\* The pass of frame f has visited every entry of its snapshot.
Complete(f) == f.idx > Len(f.listenersCopy)

\* C1: of two listeners registered on the type when dispatch starts, the one
\* of strictly higher priority is invoked first: when the pass has invoked
\* the lower one it has invoked the higher one before it, whatever the order
\* of the listen/listenOnce/remove calls that built the bucket.
C1_HigherPriorityFirst ==
    \A k \in DispatchFrames :
        LET f == stack[k]
        IN  \A a, b \in 1 .. Len(f.listenersCopy) :
                LET L1 == f.listenersCopy[a]
                    L2 == f.listenersCopy[b]
                IN  (L1.priority > L2.priority /\ PosIn(f.fired, L2.handle) # 0)
                        => /\ PosIn(f.fired, L1.handle) # 0
                           /\ PosIn(f.fired, L1.handle) < PosIn(f.fired, L2.handle)

\* C1 happens: a pass has invoked a listener of higher priority before one of
\* lower priority that was registered earlier, after some listener was removed.
C1_Witness ==
    \E k \in DispatchFrames :
        LET f == stack[k]
        IN  /\ removeCalled # {}
            /\ \E a, b \in 1 .. Len(f.listenersCopy) :
                   /\ f.listenersCopy[a].priority > f.listenersCopy[b].priority
                   /\ f.listenersCopy[a].handle > f.listenersCopy[b].handle
                   /\ PosIn(f.fired, f.listenersCopy[a].handle) # 0
                   /\ PosIn(f.fired, f.listenersCopy[b].handle) # 0

\* C2: of two listeners of equal priority registered on the type when
\* dispatch starts, the one registered first (the smaller handle) is invoked
\* first.
C2_EqualPriorityInRegistrationOrder ==
    \A k \in DispatchFrames :
        LET f == stack[k]
        IN  \A a, b \in 1 .. Len(f.listenersCopy) :
                LET L1 == f.listenersCopy[a]
                    L2 == f.listenersCopy[b]
                IN  (/\ L1.priority = L2.priority
                     /\ L1.handle < L2.handle
                     /\ PosIn(f.fired, L2.handle) # 0)
                        => /\ PosIn(f.fired, L1.handle) # 0
                           /\ PosIn(f.fired, L1.handle) < PosIn(f.fired, L2.handle)

\* C2 happens: a pass has invoked two listeners of equal priority, and a
\* listener of the other priority was registered between the two and has been
\* removed since.
C2_Witness ==
    \E k \in DispatchFrames :
        LET f == stack[k]
        IN  \E a, b \in 1 .. Len(f.listenersCopy) :
                LET L1 == f.listenersCopy[a]
                    L2 == f.listenersCopy[b]
                IN  /\ L1.priority = L2.priority
                    /\ L1.handle + 1 < L2.handle
                    /\ PosIn(f.fired, L1.handle) # 0
                    /\ PosIn(f.fired, L2.handle) # 0
                    /\ (L1.handle + 1) \in removeCalled
                    /\ (L1.handle + 1) \notin HandlesOf(f.listenersCopy)

\* C3: the user callback of a listenOnce listener runs exactly once: never a
\* second time, and at least once when a pass that held it has visited every
\* entry.  (Violated: a pass started from a callback of an outer pass invokes
\* and removes the listener, and the outer pass, whose snapshot still holds
\* the entry, invokes it again.)
C3_OnceFiresExactlyOnce ==
    /\ \A h \in Handles : onceCalls[h] <= 1
    /\ \A k \in DispatchFrames :
           Complete(stack[k]) =>
               \A i \in 1 .. Len(stack[k].listenersCopy) :
                   stack[k].listenersCopy[i].callback.once
                       => onceCalls[stack[k].listenersCopy[i].handle] >= 1

\* The handles of the snapshot of frame f, in its order.
CopyHandles(f) == [i \in 1 .. Len(f.listenersCopy) |-> f.listenersCopy[i].handle]

\* ... those the loop has gone past.
VisitedHandles(f) ==
    SubSeq(CopyHandles(f), 1,
           IF f.idx - 1 <= Len(f.listenersCopy) THEN f.idx - 1
           ELSE Len(f.listenersCopy))

\* C4 as stated: a listener of the snapshot on which a callback of the pass
\* called remove() before the pass reached it is still invoked by that pass,
\* and no pass invokes a listener on which remove() had returned before the
\* pass started.
C4_RemovedStillFiresNeverLater ==
    \A k \in DispatchFrames :
        LET f == stack[k]
        IN  /\ \A h \in f.rmCalled :
                   PosIn(VisitedHandles(f), h) # 0 => PosIn(f.fired, h) # 0
            /\ Range(f.fired) \cap f.doomed = {}

\* C4 amended: ... is still invoked by that pass unless it is a listenOnce
\* listener whose user callback is running (its handle is scheduled for
\* removal, so remove() returned at once and the pass skips it); and no pass
\* invokes a listener on which remove() had returned before the pass started.
C4_RemovedStillFiresUnlessRunning ==
    \A k \in DispatchFrames :
        LET f == stack[k]
        IN  /\ \A h \in f.rmCalled :
                   PosIn(VisitedHandles(f), h) # 0
                       => (PosIn(f.fired, h) # 0 \/ h \in RunningOnce(k))
            /\ Range(f.fired) \cap f.doomed = {}

\* C4 happens: a pass has invoked a listener after a callback of the pass
\* removed it, and the listener is gone from the registry.
C4_Witness ==
    \E k \in DispatchFrames :
        \E h \in stack[k].rmCalled :
            /\ PosIn(stack[k].fired, h) # 0
            /\ ~hasListener(h)
            /\ h \notin listenersScheduledForRemoval

\* C5 as stated: a listener registered while a pass of its type runs is not
\* invoked by that pass, and the first pass of the type that starts after the
\* registration invokes it.
C5_NewListenerNextPass ==
    \A k \in DispatchFrames :
        LET f == stack[k]
        IN  /\ Range(f.fired) \cap f.added = {}
            /\ Complete(f) => f.mustFire \subseteq Range(f.fired)

\* C5 amended: ... and the first pass of the type that starts after the
\* registration invokes it, provided it is still registered when that pass
\* starts.
C5_NewListenerNextPassIfRegistered ==
    \A k \in DispatchFrames :
        LET f == stack[k]
        IN  /\ Range(f.fired) \cap f.added = {}
            /\ Complete(f) =>
                   (f.mustFire \cap Range(CopyHandles(f))) \subseteq Range(f.fired)

\* C5 happens: a listener registered inside a pass, at a higher priority than
\* a listener of the snapshot, was left out by that pass and has been invoked
\* by the next one.
C5_Witness ==
    \E k, m \in DispatchFrames :
        /\ k < m
        /\ \E h \in stack[k].added \cap stack[m].mustFire :
               /\ PosIn(stack[m].fired, h) # 0
               /\ PosIn(stack[k].fired, h) = 0
               /\ \E i, j \in 1 .. Len(stack[m].listenersCopy) :
                      /\ stack[m].listenersCopy[i].handle = h
                      /\ stack[m].listenersCopy[j].handle \in Range(CopyHandles(stack[k]))
                      /\ stack[m].listenersCopy[i].priority >
                             stack[m].listenersCopy[j].priority

\* The part of the sequence of handles s behind handle h.
After(s, h) == SubSeq(s, PosIn(s, h) + 1, Len(s))

Occurrences(s, h) == Cardinality({i \in 1 .. Len(s) : s[i] = h})

\* C6 as stated: a listener that removed itself in its callback is invoked
\* once by the pass, and the pass invokes every entry behind it, in order.
C6_SelfRemovalPassContinues ==
    \A k \in DispatchFrames :
        LET f == stack[k]
        IN  \A h \in f.selfRemoved :
                /\ Occurrences(f.fired, h) = 1
                /\ After(f.fired, h) = After(VisitedHandles(f), h)

\* C6 amended: ... and the pass invokes every entry behind it, in order,
\* except the listenOnce listeners whose user callback is running, which it
\* skips.
C6_SelfRemovalPassContinuesUnlessRunning ==
    \A k \in DispatchFrames :
        LET f == stack[k]
        IN  \A h \in f.selfRemoved :
                /\ Occurrences(f.fired, h) = 1
                /\ After(f.fired, h) =
                       SelectSeq(After(VisitedHandles(f), h),
                                 LAMBDA x : x \notin RunningOnce(k))

\* C6 happens: a listener removed itself, is gone from the registry, and the
\* pass has gone on to invoke the entry behind it and has visited them all.
C6_Witness ==
    \E k \in DispatchFrames :
        LET f == stack[k]
        IN  /\ Complete(f)
            /\ \E h \in f.selfRemoved :
                   /\ ~hasListener(h)
                   /\ h \notin listenersScheduledForRemoval
                   /\ After(f.fired, h) # <<>>

\* C7 as stated: process() invokes the listeners in the order in which the
\* messages were queued: after a listener was invoked for a queued message,
\* no listener is invoked for a message queued before it.
C7_QueuedOrder == [][lastInvoked' >= lastInvoked]_vars

\* C7 amended: ... provided process() is not called from a callback while a
\* process() call is draining the queue.
C7_QueuedOrderUnlessReentered ==
    [][~reentered' => lastInvoked' >= lastInvoked]_vars

\* C7 happens: a listener has been invoked for the second message, which a
\* callback queued during the drain, after the listeners of the first.
C7_Witness ==
    /\ ~reentered
    /\ lastInvoked = 2
    /\ dispatched[1] = 1
    /\ \E k \in 1 .. Depth : stack[k].kind = "process" /\ 2 \in stack[k].queuedDuring

\* The step in which a process() call returns.
ProcessReturns == InProcess /\ Len(stack') < Len(stack)

\* C8 as stated: when a process() call returns, every message queued while it
\* ran has been dispatched.
C8_DrainsWhatCallbacksQueue ==
    [][ProcessReturns => \A m \in Top.queuedDuring : dispatched[m] >= 1]_vars

\* C8 amended: ... provided process() is not called from a callback while a
\* process() call is draining the queue.
C8_DrainsWhatCallbacksQueueUnlessReentered ==
    [][(ProcessReturns /\ ~reentered)
          => \A m \in Top.queuedDuring : dispatched[m] >= 1]_vars

\* C8 happens: process() is about to return after it dispatched a message
\* that a callback queued during the drain and a message queued while that
\* one was dispatched.
C8_Witness ==
    /\ InProcess
    /\ ~reentered
    /\ Depth = 1
    /\ NodePos(Top.it) = Len(queuedDispatches)
    /\ {2, 3} \subseteq Top.queuedDuring
    /\ dispatched[2] = 1
    /\ dispatched[3] = 1
    /\ lastInvoked = 3

\* C9: once a Token that held its handle has been destroyed, hasListener of
\* the handle is false, and no dispatch call that starts afterwards invokes
\* the listener; the Token may have been destroyed by the application or by
\* any callback, the callback of its own listenOnce listener included.
C9_DestroyedTokenUnsubscribes ==
    /\ \A h \in tokenDestroyed : ~hasListener(h)
    /\ \A k \in DispatchFrames :
           Range(stack[k].fired) \cap stack[k].released = {}

\* C9 happens: the Token of a listenOnce listener was destroyed inside that
\* listener's callback, which is still running; a dispatch of the type made
\* afterwards from the callback found the entry in the registry and has
\* visited every entry without invoking it.
C9_Witness ==
    \E c \in 1 .. Depth, k \in DispatchFrames :
        /\ c < k
        /\ stack[c].kind = "callback"
        /\ stack[c].callback.once
        /\ stack[c].handle \in tokenDestroyed
        /\ stack[c].handle \in stack[k].released
        /\ Complete(stack[k])
        /\ stack[c].handle \notin Range(stack[k].fired)
        /\ ~hasListener(stack[c].handle)

\* C10: a remove(h) call on a handle on which remove() has returned before,
\* or on a handle that was never issued, leaves the listener registry, the
\* deferred queue and the pending-removal set as they were.
C10_RemoveIdempotent ==
    [][\A h \in 0 .. RemoveListeners :
          (Remove(h, FALSE, TRUE) /\ (h \in removeCalled \/ ~Issued(h)))
              => UNCHANGED <<listenersByType, queuedDispatches,
                             listenersScheduledForRemoval>>]_vars

\* C10 happens: remove() has been called both on a handle already removed
\* and on a handle never issued, the second time from a callback with a
\* message in the queue and a handle in the pending-removal set.
C10_Witness ==
    /\ noopRemoves = {"again", "unissued"}
    /\ InCallback
    /\ queuedDispatches # <<>>
    /\ listenersScheduledForRemoval # {}
    /\ \E t \in Types : listenersByType[t] # <<>>

\* Every entry of every bucket, with the type of its bucket.
AllEntries ==
    UNION {{<<t, i>> : i \in 1 .. Len(listenersByType[t])} : t \in Types}

EntryAt(p) == listenersByType[p[1]][p[2]]

\* C11: the handles returned by listen and listenOnce are pairwise distinct,
\* whatever the types and whatever was removed in between (so no value is
\* returned again after its listener was removed); no two entries of the
\* registry, in one bucket or in two, carry the same handle and every entry
\* carries a returned handle; and the handle a listenOnce wrapper removes
\* (the listenerId it captured) is the handle of its entry, the one
\* listenOnce returned.
C11_HandlesUnique ==
    /\ \A i, j \in 1 .. Len(returned) : i # j => returned[i] # returned[j]
    /\ \A p, q \in AllEntries : p # q => EntryAt(p).handle # EntryAt(q).handle
    /\ \A p \in AllEntries :
           /\ EntryAt(p).handle \in Range(returned)
           /\ EntryAt(p).callback.once
                  => EntryAt(p).callback.listenerId = EntryAt(p).handle
    /\ \A k \in 1 .. Depth :
           (stack[k].kind = "callback" /\ stack[k].callback.once)
               => stack[k].callback.listenerId = stack[k].handle

\* C11 happens: three handles were returned, for both types; the first named
\* a listenOnce listener that has run and removed itself, a second listener
\* was removed by remove(), and the third is registered.
C11_Witness ==
    /\ Len(returned) = 3
    /\ onceCalls[returned[1]] = 1
    /\ returned[2] \in removeCalled
    /\ \A p \in AllEntries : EntryAt(p).handle = returned[3]
    /\ AllEntries # {}
    /\ Depth = 0

\* Some bucket holds an entry with handle h.
Registered(h) == \E t \in Types : h \in HandlesOf(listenersByType[t])

\* C12: Removed is terminal.  For a handle that has been issued, no step puts
\* an entry with the handle into a bucket once none holds it, and no step
\* makes hasListener true once it is false (it was true when listen returned
\* the handle).
C12_RemovedIsTerminal ==
    [][\A h \in Handles :
          Issued(h) => /\ (~Registered(h) => ~Registered(h)')
                       /\ (~hasListener(h) => ~hasListener(h)')]_vars

\* C12 happens: the first handle was removed by remove(); the second named a
\* listenOnce listener that has run and removed itself; no bucket holds
\* either and hasListener is false for both.
C12_Witness ==
    /\ returned = <<0, 1>>
    /\ 0 \in removeCalled
    /\ onceCalls[0] = 0
    /\ onceCalls[1] = 1
    /\ ~Registered(0) /\ ~Registered(1)
    /\ ~hasListener(0) /\ ~hasListener(1)
    /\ Depth = 0

\* Token objects a and b are related by moves.
Related(a, b) ==
    /\ a # b
    /\ tokens[a].alive /\ tokens[b].alive
    /\ tokens[a].family # 0
    /\ tokens[a].family = tokens[b].family

\* The step moves Token other into Token k, by the move constructor or by
\* move assignment.
MovesInto(k, other) ==
    /\ k # other
    /\ tokens'[other] # tokens[other]
    /\ (TokenMoveConstruct(k, other) \/ TokenMoveAssign(k, other))

\* C13: a move out of a Token that holds its handle leaves the source holding
\* nothing and the target holding that handle; destroying a Token that holds
\* nothing leaves hasListener as it was for every handle; destroying a Token
\* that holds its handle, or calling its remove(), makes hasListener false
\* for the handle; and two Tokens related by moves never both hold.
C13_MoveTransfersOwnership ==
    /\ [](\A a, b \in Slots : Related(a, b) =>
             ~(tokens[a].holdsResource /\ tokens[b].holdsResource))
    /\ [][\A k \in 1 .. MoveTokens :
             /\ \A other \in 1 .. MoveTokens :
                    (tokens[other].holdsResource /\ MovesInto(k, other))
                        => (/\ ~tokens'[other].holdsResource
                            /\ tokens'[k].holdsResource
                            /\ tokens'[k].handle = tokens[other].handle)
             /\ (~tokens[k].holdsResource /\ TokenDestruct(k))
                    => (\A h \in Handles : hasListener(h)' = hasListener(h))
             /\ (tokens[k].holdsResource /\ (TokenDestruct(k) \/ TokenRemove(k)))
                    => (\A h \in Handles :
                            h = tokens[k].handle => ~hasListener(h)')]_vars

\* C13 happens: a Token that held its handle has been moved into another
\* one: the source is still alive and holds nothing, the target holds the
\* handle, and the listener is registered, next to a second listener.
C13_Witness ==
    /\ Related(1, 2)
    /\ ~tokens[1].holdsResource
    /\ tokens[2].holdsResource
    /\ hasListener(tokens[2].handle)
    /\ nextListenerId = 2

\* C14: hasListener(h) is true exactly when some bucket holds an entry with
\* handle h and h is not in the pending-removal set; it is false for a handle
\* never issued, and false for the handle of a listenOnce listener while the
\* user callback of that listener is running.
C14_HasListenerExact ==
    /\ \A h \in Handles :
           hasListener(h) <=>
               (Registered(h) /\ h \notin listenersScheduledForRemoval)
    /\ \A h \in Handles : ~Issued(h) => ~hasListener(h)
    /\ \A k \in 1 .. Depth :
           (stack[k].kind = "callback" /\ stack[k].callback.once)
               => ~hasListener(stack[k].handle)

\* C14 happens: inside the callback of a listenOnce listener, in a pass
\* started from another callback, the bucket still holds the entry and
\* hasListener is false for it and true for the other listener.
C14_Witness ==
    /\ InCallback
    /\ Depth = 4
    /\ Top.callback.once
    /\ Registered(Top.handle)
    /\ ~hasListener(Top.handle)
    /\ \E h \in Handles : h # Top.handle /\ hasListener(h)

\* C15: a queue<T>(msg) call leaves the registry and the pending-removal
\* set as they were, invokes no listener (no frame is pushed, no invocation
\* is counted) and makes the queue one element longer, the new closure last
\* and the others as before; and every pass made for a queued message runs
\* inside a process() call.
C15_QueueOnlyAppends ==
    /\ [](\A k \in DispatchFrames :
             stack[k].ticket # 0 =>
                 \E j \in 1 .. (k - 1) : stack[j].kind = "process")
    /\ [][\A t \in Types :
             (queueCount' # queueCount /\ Queue(t, MaxQueued))
                 => /\ UNCHANGED <<listenersByType, listenersScheduledForRemoval,
                                   onceCalls, lastInvoked, dispatched>>
                    /\ Len(stack') = Len(stack)
                    /\ Len(queuedDispatches') = Len(queuedDispatches) + 1
                    /\ SubSeq(queuedDispatches', 1, Len(queuedDispatches))
                           = queuedDispatches
                    /\ queuedDispatches'[Len(queuedDispatches')].type = t
                    /\ queuedDispatches'[Len(queuedDispatches')].ticket
                           = queueCount']_vars

\* C15 happens: a callback running under process() has queued a message of
\* its own type behind the one being dispatched; the listener is registered,
\* the callback still runs, and no closure has run for the new message.
C15_Witness ==
    /\ InCallback
    /\ Depth = 3
    /\ stack[1].kind = "process"
    /\ Len(queuedDispatches) = 2
    /\ queuedDispatches[2].ticket \in stack[1].queuedDuring
    /\ queuedDispatches[2].type = stack[2].type
    /\ hasListener(Top.handle)
    /\ dispatched[queuedDispatches[2].ticket] = 0

\* C16 as stated: every call returns: whenever a call is in progress, the
\* call stack is empty again later.
C16_EveryCallReturns == (Depth > 0) ~> (Depth = 0)

\* The frame at position k of the stack is a dispatch() call.
DispatchAt(k) == IF Depth >= k THEN stack[k].kind = "dispatch" ELSE FALSE

\* C16 amended: every dispatch() call returns; and every call returns,
\* process() included, in the runs in which the queue stops growing from
\* some point on.
C16_ReturnsIfQueueingStops ==
    /\ \A k \in 1 .. (LiveDepth + 1) : DispatchAt(k) ~> (Depth < k)
    /\ (<>[][Len(queuedDispatches') <= Len(queuedDispatches)]_vars)
           => ((Depth > 0) ~> (Depth = 0))

\* C16 happens: process() has returned, the queue is empty, and the drain
\* invoked a listener for a message that was queued while another one was
\* pending (the node with ticket 2).
C16_Witness ==
    /\ Depth = 0
    /\ queuedDispatches = <<>>
    /\ lastInvoked = 2
    /\ nextListenerId > 0

\* C17: while the user callback of a listenOnce listener is running, its
\* handle is in listenersScheduledForRemoval, no call made from inside it,
\* at any depth, is an invocation of the same listener, and no pass that
\* runs inside it has invoked that listener.
C17_RunningOnceNotReinvoked ==
    \A k \in 1 .. Depth :
        (stack[k].kind = "callback" /\ stack[k].callback.once) =>
            /\ stack[k].handle \in listenersScheduledForRemoval
            /\ \A j \in (k + 1) .. Depth :
                   /\ stack[j].kind = "callback"
                          => stack[j].handle # stack[k].handle
                   /\ stack[j].kind = "dispatch"
                          => stack[k].handle \notin Range(stack[j].fired)

\* C17 happens: the user callback of a listenOnce listener runs inside a pass
\* and has called dispatch<T> for the same type; the nested pass holds the
\* listener in its snapshot and has moved past it without invoking it.
C17_Witness ==
    /\ Depth = 3
    /\ stack[2].kind = "callback"
    /\ stack[2].callback.once
    /\ InDispatch
    /\ Top.type = stack[1].type
    /\ PosIn(CopyHandles(Top), stack[2].handle) # 0
    /\ Top.idx > PosIn(CopyHandles(Top), stack[2].handle)
    /\ stack[2].handle \notin Range(Top.fired)

\* C18: in every reachable state, every bucket of the registry is sorted:
\* of two entries of one bucket, the one in front has the higher priority or,
\* at equal priority, the smaller handle (it was inserted first).
C18_BucketsSorted ==
    \A t \in Types :
        \A i, j \in 1 .. Len(listenersByType[t]) :
            i < j =>
                \/ listenersByType[t][i].priority > listenersByType[t][j].priority
                \/ /\ listenersByType[t][i].priority = listenersByType[t][j].priority
                   /\ listenersByType[t][i].handle < listenersByType[t][j].handle

\* C18 happens: a callback running in a pass has registered a listener of
\* higher priority, which stands in front of the two listeners of lower
\* priority that the pass holds in its snapshot.
C18_Witness ==
    /\ Depth = 2
    /\ InCallback
    /\ \E t \in Types :
           /\ Len(listenersByType[t]) = 3
           /\ listenersByType[t][1].priority = 1
           /\ listenersByType[t][2].priority = 0
           /\ listenersByType[t][3].priority = 0
           /\ listenersByType[t][1].handle
                  \notin HandlesOf(stack[1].listenersCopy)
           /\ listenersByType[t][2].handle \in HandlesOf(stack[1].listenersCopy)

\* The entries of bucket vec other than the one with handle h, in order.
Without(vec, h) ==
    [i \in 1 .. Len(vec) |-> IF vec[i].handle = h THEN <<>> ELSE <<vec[i]>>]

RECURSIVE Flatten(_)
Flatten(ss) == IF ss = <<>> THEN <<>> ELSE Head(ss) \o Flatten(Tail(ss))

\* What a remove(h) call leaves alone: in every bucket the entries other than
\* h are the same {handle, priority, callback} in the same order and no entry
\* is new, and the queue and the handle counter are as before.
RemoveFrame(h) ==
    /\ \A t \in Types :
           /\ Flatten(Without(listenersByType'[t], h))
                  = Flatten(Without(listenersByType[t], h))
           /\ Len(listenersByType'[t]) <= Len(listenersByType[t])
    /\ UNCHANGED <<queuedDispatches, nextListenerId>>

\* C19: a remove(h) call, made by the application, by a callback or by a
\* listenOnce wrapper when its user callback has returned, changes nothing
\* but the entry of h: the snapshot that a later pass takes of any bucket
\* holds the other listeners as it would have without the call.
C19_RemoveOnlyThatEntry ==
    [][/\ \A h \in 0 .. OrderListeners :
             Remove(h, FALSE, FALSE) => RemoveFrame(h)
       /\ IF InCallback
          THEN (Top.callback.once /\ CallbackReturn)
                   => RemoveFrame(Top.callback.listenerId)
          ELSE TRUE]_vars

\* C19 happens: a callback of a pass over three listeners has removed the
\* one in the middle of the bucket; the other two are registered, in the
\* order of the snapshot, and they are of different priorities.
C19_Witness ==
    /\ Depth = 2
    /\ InCallback
    /\ Len(stack[1].listenersCopy) = 3
    /\ LET t == stack[1].type
           gone == stack[1].listenersCopy[2].handle
       IN  /\ gone \in removeCalled
           /\ HandlesOf(listenersByType[t]) = HandlesOf(stack[1].listenersCopy) \ {gone}
           /\ Len(listenersByType[t]) = 2
           /\ listenersByType[t][1] = stack[1].listenersCopy[1]
           /\ listenersByType[t][2] = stack[1].listenersCopy[3]
           /\ listenersByType[t][1].priority # listenersByType[t][2].priority

\* C20: in the runs in which no callback calls process(): a message is in
\* the queue until a process() call has run its closure, its closure is run
\* once and never again, and when a process() call returns the queue is
\* empty and every message passed to queue() so far has been dispatched
\* exactly once.
C20_QueuedDispatchedExactlyOnce ==
    /\ [](~reentered =>
             \A m \in 1 .. queueCount :
                 /\ dispatched[m] <= 1
                 /\ NodePos(m) = 0 => dispatched[m] = 1
                 /\ (NodePos(m) # 0 /\ ~ProcessOnStack) => dispatched[m] = 0)
    /\ [][(ProcessReturns /\ ~reentered)
              => /\ queuedDispatches' = <<>>
                 /\ \A m \in 1 .. queueCount : dispatched'[m] = 1]_vars

\* C20 happens: a second process() call is at the end of its loop; the first
\* message was dispatched and cleared by an earlier call, the second was
\* queued after that call, and the third was queued by a callback while this
\* call was running; each has been dispatched once.
C20_Witness ==
    /\ ~reentered
    /\ Depth = 1
    /\ InProcess
    /\ queueCount = 3
    /\ Len(queuedDispatches) = 2
    /\ queuedDispatches[1].ticket = 2
    /\ queuedDispatches[2].ticket = 3
    /\ Top.queuedDuring = {3}
    /\ NodePos(Top.it) = 2
    /\ \A m \in 1 .. 3 : dispatched[m] = 1

====
